---- MODULE Spec2Model ----
(***************************************************************************)
(* donk: the revision-tracked cfg synchronisation protocol (CfgCmd.Pull,   *)
(* CfgCmd.Push, CfgCmd.Init of src/src/common.go) over the object store    *)
(* client of src/src/oss_client.go.                                        *)
(*                                                                         *)
(* Several machines share one bucket.  Each machine runs one invocation at *)
(* a time; invocations of different machines interleave at every access to *)
(* the bucket.  A user edits the managed directory of a machine only while *)
(* no invocation runs on that machine.                                     *)
(***************************************************************************)
EXTENDS Integers, Sequences, FiniteSets, TLC

\* ---------------------------------------------------------------- bounds
\* Number of cfg invocations (pull, push, init) started in one behaviour.
MaxOps == 3
\* Number of user edits of managed directories in one behaviour.
MaxEdits == 1

\* ------------------------------------------------------------- the world
Machines == {"X", "Y"}
Names == {"nvim", "tmux"}
\* Relative file paths, in the lexical order filepath.Walk visits them.
WalkOrder == <<"a.txt", "b.txt">>
Paths == {WalkOrder[i] : i \in 1..Len(WalkOrder)}
\* The contents the user gives each file; 0 stands for "no file at this
\* path".  a.txt comes in two versions of the same length.
Contents == [p \in Paths |-> IF p = "a.txt" THEN {1, 2} ELSE {1}]
NoFiles == [p \in Paths |-> 0]
\* The entries whose managed directory the user edits by hand; the others
\* change through donk only.
UserEdits == {"nvim"}

cfgManifestVersion == 1
cfgManifestAlgorithm == "sha256"

\* A directory: whether the path exists, and the regular files below it.
MissingDir == [exists |-> FALSE, files |-> NoFiles]
EmptyDir == [exists |-> TRUE, files |-> NoFiles]
DirOf(f) == [exists |-> TRUE, files |-> f]

\* The link paths: the one named after each entry, and one more that only
\* the link specifications of nvim refer to.
ExtraPath == "extra"
LinkPaths == Names \cup {ExtraPath}

\* What sits at a link path: nothing, a symbolic link to the managed
\* directory, a symbolic link to another source, or a plain directory.
AbsentLink == [kind |-> "absent", files |-> NoFiles]
ManagedSymlink == [kind |-> "symlink", files |-> NoFiles]
OtherSymlink == [kind |-> "symlink_other", files |-> NoFiles]
PlainDir(f) == [kind |-> "dir", files |-> f]

\* A link specification: "<link>" is plain, "<link> -> <src>" is mapped.
PlainLink(p) == [plain |-> TRUE, link |-> p]
MappedLink(p) == [plain |-> FALSE, link |-> p]

\* The link specifications of the settings file: one plain link per entry.
LinkCfg == [n \in Names |-> <<PlainLink(n)>>]

\* Other link specifications the settings file may give nvim: none, only
\* a mapped link, two plain links, a mapped link before the plain one, and
\* the plain link at the other path.
LinkCfgs ==
  { <<>>,
    <<MappedLink(ExtraPath)>>,
    <<PlainLink("nvim")>>,
    <<PlainLink("nvim"), PlainLink(ExtraPath)>>,
    <<MappedLink(ExtraPath), PlainLink("nvim")>>,
    <<PlainLink(ExtraPath), MappedLink("nvim")>> }

\* ------------------------------------------------------ snapshot engine
PathRank(p) == CHOOSE i \in 1..Len(WalkOrder) : WalkOrder[i] = p

\* Size and digest of a file's bytes: both contents have the same length,
\* the digest tells them apart.
FileSize(c) == 4
fileSHA256(c) == 100 + c

CfgManifestFile(p, c) == [path |-> p, size |-> FileSize(c), sha256 |-> fileSHA256(c)]

RECURSIVE InsertByPath(_, _)
InsertByPath(s, f) ==
  IF s = <<>> THEN <<f>>
  ELSE IF PathRank(f.path) <= PathRank(Head(s).path) THEN <<f>> \o s
  ELSE <<Head(s)>> \o InsertByPath(Tail(s), f)

\* sort.Slice(files, files[i].Path < files[j].Path): on a slice of at
\* most twelve elements an insertion sort, which keeps the order of the
\* elements of equal path.
RECURSIVE SortByPath(_)
SortByPath(s) ==
  IF s = <<>> THEN <<>> ELSE InsertByPath(SortByPath(Tail(s)), Head(s))

\* The regular files the walk meets, in walk order.
WalkFiles(f) ==
  LET present == SelectSeq(WalkOrder, LAMBDA p : f[p] # 0)
  IN  [i \in 1..Len(present) |-> CfgManifestFile(present[i], f[present[i]])]

\* A missing root yields the empty list.
buildCfgFileSnapshot(d) ==
  IF ~d.exists THEN <<>> ELSE SortByPath(WalkFiles(d.files))

isCfgManifestFilesEqual(a, b) ==
  IF Len(a) # Len(b) THEN FALSE
  ELSE LET aa == SortByPath(a)
           bb == SortByPath(b)
       IN  \A i \in 1..Len(aa) :
             /\ aa[i].path = bb[i].path
             /\ aa[i].size = bb[i].size
             /\ aa[i].sha256 = bb[i].sha256

isLocalCfgEqualToManifest(d, entry) ==
  isCfgManifestFilesEqual(buildCfgFileSnapshot(d), entry.files)

\* ------------------------------------------------------- manifest store
\* Digest of the JSON of a file list: an injective encoding of the list,
\* never the empty digest of a zero-valued entry.
manifestFilesSHA256(fs) ==
  <<Len(fs)>> \o [i \in 1..Len(fs) |-> fs[i].sha256 * 10 + PathRank(fs[i].path)]

\* Entries[name] of a Go map: the zero value when the key is absent.
NoEntry ==
  [present |-> FALSE, root |-> <<>>, revision |-> 0, updatedAt |-> 0,
   updatedBy |-> "", files |-> <<>>, manifestSha256 |-> <<>>]

\* An entry that is present with nothing but zero values: revision 0 and
\* no files.
ZeroEntry == [NoEntry EXCEPT !.present = TRUE]

buildManifestEntry(m, n, revision, fs, now) ==
  [present |-> TRUE, root |-> <<m, "cfg", n>>, revision |-> revision,
   updatedAt |-> now, updatedBy |-> m, files |-> fs,
   manifestSha256 |-> manifestFilesSHA256(fs)]

defaultCfgManifest ==
  [version |-> cfgManifestVersion, algorithm |-> cfgManifestAlgorithm,
   entries |-> [n \in Names |-> NoEntry]]

\* A manifest file or object that does not exist.
NoManifestFile ==
  [exists |-> FALSE, version |-> 0, algorithm |-> "",
   entries |-> [n \in Names |-> NoEntry]]

loadLocalCfgManifest(file) ==
  IF ~file.exists THEN defaultCfgManifest
  ELSE [version |-> IF file.version = 0 THEN cfgManifestVersion ELSE file.version,
        algorithm |-> IF file.algorithm = "" THEN cfgManifestAlgorithm ELSE file.algorithm,
        entries |-> file.entries]

\* The content saveLocalCfgManifest renames into place.
saveLocalCfgManifest(manifest) ==
  [exists |-> TRUE,
   version |-> IF manifest.version = 0 THEN cfgManifestVersion ELSE manifest.version,
   algorithm |-> IF manifest.algorithm = "" THEN cfgManifestAlgorithm ELSE manifest.algorithm,
   entries |-> manifest.entries]

\* OSSClient.Pull of the manifest key: the object when it exists, else the
\* not-found error, which loadRemoteCfgManifest turns into the default.
loadRemoteCfgManifest(obj) ==
  IF ~obj.exists THEN defaultCfgManifest ELSE loadLocalCfgManifest(obj)

saveRemoteCfgManifest(manifest) == saveLocalCfgManifest(manifest)

\* ------------------------------------------------------------ the state
VARIABLES
  remoteManifestObj,   \* the object <bucket>/donk/cfg/manifest.json
  remoteData,          \* per name: the objects under the entry's OSS prefix
  localManifestFile,   \* per machine: <dir>/cfg/manifest.json
  cfgDir,              \* per machine and name: the managed directory
  tmpDir,              \* per machine and name: the sibling ".tmp" directory
  bakDir,              \* per machine and name: the sibling ".bak" directory
  linkPath,            \* per machine and link path: what is at the path
  linkCfg,             \* per name: the link specifications of the settings file
  pc,                  \* per machine: position of the running invocation
  op,                  \* per machine: "pull", "push", "init" or "none"
  name,                \* per machine: the <name> argument
  result,              \* per machine: what the invocation returned
  remoteManifest,      \* per machine: the remote manifest as loaded
  localManifest,       \* per machine: the local manifest as loaded
  newEntry,            \* per machine: Push's new manifest entry
  pending,             \* per machine: object keys still to download or upload
  ranCmds,             \* per machine: the invocation ran the post-sync commands
  dirBefore,           \* per machine: history variable, the managed directory
                       \* as the running Pull found it
  clock,               \* time.Now()
  ops,                 \* invocations started
  edits,               \* user edits made
  filesA,              \* isCfgManifestFilesEqual: the caller's slice a
  filesB,              \* isCfgManifestFilesEqual: the caller's slice b
  filesEqual           \* isCfgManifestFilesEqual: "true" or "false" as
                       \* returned, "none" before the call

remote == <<remoteManifestObj, remoteData>>
disk == <<localManifestFile, cfgDir, tmpDir, bakDir, linkPath>>
locals == <<remoteManifest, localManifest, newEntry, pending, ranCmds,
           dirBefore>>
ctl == <<pc, op, name, result>>
compare == <<filesA, filesB, filesEqual>>
vars == <<remote, disk, locals, ctl, clock, ops, edits, linkCfg, compare>>

\* What is at a link path before donk is used.
OriginalLink(m, n) ==
  IF m # "X" THEN AbsentLink
  ELSE IF n = ExtraPath THEN PlainDir([NoFiles EXCEPT !["b.txt"] = 1])
  ELSE PlainDir([NoFiles EXCEPT !["a.txt"] = IF n = "nvim" THEN 1 ELSE 0])

\* No call of isCfgManifestFilesEqual is looked at on its own.
NoCompare ==
  /\ filesA = <<>>
  /\ filesB = <<>>
  /\ filesEqual = "none"

InitState(links, manifestObj, orig) ==
  /\ remoteManifestObj = manifestObj
  /\ remoteData = [n \in Names |-> NoFiles]
  /\ localManifestFile = [m \in Machines |-> NoManifestFile]
  /\ cfgDir = [m \in Machines |-> [n \in Names |-> MissingDir]]
  /\ tmpDir = [m \in Machines |-> [n \in Names |-> MissingDir]]
  /\ bakDir = [m \in Machines |-> [n \in Names |-> MissingDir]]
  /\ linkCfg = links
  /\ linkPath = orig
  /\ pc = [m \in Machines |-> "idle"]
  /\ op = [m \in Machines |-> "none"]
  /\ name = [m \in Machines |-> "nvim"]
  /\ result = [m \in Machines |-> "none"]
  /\ remoteManifest = [m \in Machines |-> defaultCfgManifest]
  /\ localManifest = [m \in Machines |-> defaultCfgManifest]
  /\ newEntry = [m \in Machines |-> NoEntry]
  /\ pending = [m \in Machines |-> <<>>]
  /\ ranCmds = [m \in Machines |-> FALSE]
  /\ dirBefore = [m \in Machines |-> MissingDir]
  /\ clock = 1
  /\ ops = 0
  /\ edits = 0

\* X holds the configs to migrate: nvim with one file, tmux still empty.
\* Y is a fresh machine.
InitWith(links, manifestObj) ==
  /\ InitState(links, manifestObj,
               [m \in Machines |-> [n \in LinkPaths |-> OriginalLink(m, n)]])
  /\ NoCompare

Init == InitWith(LinkCfg, NoManifestFile)

\* ------------------------------------------------------- shared helpers
RevisionOf(entry) == IF entry.present THEN entry.revision ELSE 0

\* What the running invocation of m read when it compared the revisions.
remoteEntry(m) == remoteManifest[m].entries[name[m]]
remoteRevision(m) == RevisionOf(remoteEntry(m))
localRevision(m) == RevisionOf(localManifest[m].entries[name[m]])

\* The rel-keys ListObjectsV2 returns under a prefix, in key order.
ListObjects(objs) == SelectSeq(WalkOrder, LAMBDA p : objs[p] # 0)

\* The files filepath.Walk uploads, in walk order.
WalkPaths(d) == SelectSeq(WalkOrder, LAMBDA p : d.files[p] # 0)

\* renameDir(dst, tmp): the target and the staging path afterwards.
renameDir(dst, tmp) == [dst |-> tmp, tmp |-> MissingDir]

\* buildSymlinkPlans: one plan per link specification, in order.  A plain
\* link points at the managed directory, a mapped link at its own source.
buildSymlinkPlans(links) ==
  IF Len(links) = 0 THEN [err |-> "err_no_link_config", plans |-> <<>>]
  ELSE LET plans == [i \in 1..Len(links) |->
                       [src |-> IF links[i].plain THEN "managed" ELSE "other",
                        link |-> links[i].link]]
       IN  IF \E i, j \in 1..Len(plans) :
                 i < j /\ plans[i].link = plans[j].link /\ plans[i].src # plans[j].src
           THEN [err |-> "err_link_conflict", plans |-> <<>>]
           ELSE [err |-> "ok", plans |-> plans]

SymlinkTo(src) == IF src = "managed" THEN ManagedSymlink ELSE OtherSymlink

\* ensureSymlink(src, link), lp being what is at the link path.
ensureSymlink(src, lp) ==
  CASE lp.kind = "absent" -> [ok |-> TRUE, link |-> SymlinkTo(src)]
    [] lp.kind = "dir" -> [ok |-> FALSE, link |-> lp]
    [] lp = SymlinkTo(src) -> [ok |-> TRUE, link |-> lp]
    [] OTHER -> [ok |-> FALSE, link |-> lp]

\* ensureSymlinks: the plans in order, stopping at the first error; lps is
\* what is at each link path of the machine.
RECURSIVE ensureSymlinks(_, _)
ensureSymlinks(plans, lps) ==
  IF plans = <<>> THEN [ok |-> TRUE, links |-> lps]
  ELSE LET r == ensureSymlink(Head(plans).src, lps[Head(plans).link])
       IN  IF ~r.ok THEN [ok |-> FALSE, links |-> lps]
           ELSE ensureSymlinks(Tail(plans),
                               [lps EXCEPT ![Head(plans).link] = r.link])

\* Faulty variant: of several plain link specifications the first is taken.
findPrimaryLinkPathFirstPlain(links, plans) ==
  LET plainIndexes == {i \in 1..Len(links) : links[i].plain}
  IN  IF plainIndexes = {} THEN [err |-> "err_no_primary_link", link |-> "none"]
      ELSE LET idx == CHOOSE i \in plainIndexes : \A j \in plainIndexes : i <= j
           IN  IF idx > Len(plans)
               THEN [err |-> "err_link_config_invalid", link |-> "none"]
               ELSE [err |-> "ok", link |-> plans[idx].link]

\* findPrimaryLinkPath: the link path of the only plain link specification.
findPrimaryLinkPath(links, plans) ==
  LET plainIndexes == {i \in 1..Len(links) : links[i].plain}
  IN  IF plainIndexes = {} THEN [err |-> "err_no_primary_link", link |-> "none"]
      ELSE IF Cardinality(plainIndexes) > 1
           THEN [err |-> "err_multiple_primary_links", link |-> "none"]
      ELSE LET idx == CHOOSE i \in plainIndexes : TRUE
           IN  IF idx > Len(plans)
               THEN [err |-> "err_link_config_invalid", link |-> "none"]
               ELSE [err |-> "ok", link |-> plans[idx].link]

\* A process starts on a machine that runs none: the machine is idle, or
\* its previous process is just returning.
Begin(m, n, o) ==
  /\ pc[m] \in {"idle", "done"}
  /\ ops' = ops + 1
  /\ op' = [op EXCEPT ![m] = o]
  /\ name' = [name EXCEPT ![m] = n]
  /\ ranCmds' = [ranCmds EXCEPT ![m] = FALSE]
  /\ pending' = [pending EXCEPT ![m] = <<>>]
  /\ dirBefore' = [dirBefore EXCEPT ![m] =
                     IF o = "pull" THEN cfgDir[m][n] ELSE MissingDir]

\* The invocation returns r.
Finish(m, r) ==
  /\ pc' = [pc EXCEPT ![m] = "done"]
  /\ result' = [result EXCEPT ![m] = r]

Goto(m, label) ==
  /\ pc' = [pc EXCEPT ![m] = label]
  /\ result' = [result EXCEPT ![m] = "none"]

\* ----------------------------------------------------------------- Pull
\* Faulty variants of the switch of CfgCmd.Pull, used to show that the
\* claims about Pull rest on it.  Without the local-is-newer case:
PullDecisionNoNewerCase(lr, rr, remoteExists, dir, entry) ==
  CASE lr = rr /\ ~remoteExists ->
         IF Len(buildCfgFileSnapshot(dir)) = 0 THEN "skipped"
         ELSE "err_remote_entry_absent"
    [] lr = rr /\ remoteExists ->
         IF ~dir.exists THEN "transfer"
         ELSE IF isLocalCfgEqualToManifest(dir, entry) THEN "skipped"
         ELSE "err_diverged"
    [] OTHER ->
         IF remoteExists THEN "transfer" ELSE "err_remote_entry_missing"

\* Overwriting a diverged directory at equal revisions:
PullDecisionOverwritesDiverged(lr, rr, remoteExists, dir, entry) ==
  CASE lr > rr -> "err_local_newer"
    [] lr = rr /\ ~remoteExists ->
         IF Len(buildCfgFileSnapshot(dir)) = 0 THEN "skipped"
         ELSE "err_remote_entry_absent"
    [] lr = rr /\ remoteExists ->
         IF ~dir.exists \/ ~isLocalCfgEqualToManifest(dir, entry) THEN "transfer"
         ELSE "skipped"
    [] OTHER ->
         IF remoteExists THEN "transfer" ELSE "err_remote_entry_missing"

\* Skipping at equal revisions without a remote entry whatever is local:
PullDecisionIgnoresLocalFiles(lr, rr, remoteExists, dir, entry) ==
  CASE lr > rr -> "err_local_newer"
    [] lr = rr /\ ~remoteExists -> "skipped"
    [] lr = rr /\ remoteExists ->
         IF ~dir.exists THEN "transfer"
         ELSE IF isLocalCfgEqualToManifest(dir, entry) THEN "skipped"
         ELSE "err_diverged"
    [] OTHER ->
         IF remoteExists THEN "transfer" ELSE "err_remote_entry_missing"

\* The switch of CfgCmd.Pull: "transfer" stands for doPull().
PullDecision(lr, rr, remoteExists, dir, entry) ==
  CASE lr > rr -> "err_local_newer"
    [] lr = rr /\ ~remoteExists ->
         IF Len(buildCfgFileSnapshot(dir)) = 0 THEN "skipped"
         ELSE "err_remote_entry_absent"
    [] lr = rr /\ remoteExists ->
         IF ~dir.exists THEN "transfer"
         ELSE IF isLocalCfgEqualToManifest(dir, entry) THEN "skipped"
         ELSE "err_diverged"
    [] OTHER ->
         IF remoteExists THEN "transfer" ELSE "err_remote_entry_missing"

\* Load both manifests, compare the revisions, decide.
Pull(m, n) ==
  /\ Begin(m, n, "pull")
  /\ LET rm == loadRemoteCfgManifest(remoteManifestObj)
         lm == loadLocalCfgManifest(localManifestFile[m])
         re == rm.entries[n]
         d  == PullDecision(RevisionOf(lm.entries[n]), RevisionOf(re),
                            re.present, cfgDir[m][n], re)
     IN  /\ remoteManifest' = [remoteManifest EXCEPT ![m] = rm]
         /\ localManifest' = [localManifest EXCEPT ![m] = lm]
         /\ IF d = "transfer" THEN Goto(m, "pull_list") ELSE Finish(m, d)
  /\ newEntry' = [newEntry EXCEPT ![m] = NoEntry]
  /\ UNCHANGED <<remote, disk, clock, edits, linkCfg, compare>>

\* doPull up to the listing of OSSClient.Pull: the staging directory is
\* recreated empty; an empty listing is the not-found error, after which
\* doPull removes the staging directory.
PullList(m) ==
  /\ pc[m] = "pull_list"
  /\ LET n == name[m]
         keys == ListObjects(remoteData[n])
     IN  IF keys = <<>>
         THEN /\ tmpDir' = [tmpDir EXCEPT ![m][n] = MissingDir]
              /\ pending' = [pending EXCEPT ![m] = <<>>]
              /\ Finish(m, "err_not_found")
         ELSE /\ tmpDir' = [tmpDir EXCEPT ![m][n] = EmptyDir]
              /\ pending' = [pending EXCEPT ![m] = keys]
              /\ Goto(m, "pull_get")
  /\ UNCHANGED <<remote, localManifestFile, cfgDir, linkPath, remoteManifest,
                 localManifest, newEntry, ranCmds, op, name, clock, ops,
                 edits, bakDir, linkCfg, compare>>
  /\ UNCHANGED dirBefore

\* Faulty variant: the objects are downloaded into the managed directory.
PullGetInPlace(m) ==
  /\ pc[m] = "pull_get"
  /\ LET n == name[m]
         p == Head(pending[m])
     IN  IF remoteData[n][p] = 0
         THEN /\ UNCHANGED cfgDir
              /\ pending' = [pending EXCEPT ![m] = <<>>]
              /\ Finish(m, "err_download")
         ELSE /\ cfgDir' = [cfgDir EXCEPT ![m][n] =
                              DirOf([cfgDir[m][n].files EXCEPT ![p] = remoteData[n][p]])]
              /\ pending' = [pending EXCEPT ![m] = Tail(pending[m])]
              /\ IF Tail(pending[m]) = <<>>
                 THEN Goto(m, "pull_save") ELSE Goto(m, "pull_get")
  /\ UNCHANGED <<remote, localManifestFile, tmpDir, linkPath, remoteManifest,
                 localManifest, newEntry, ranCmds, op, name, clock, ops,
                 edits, bakDir, linkCfg, compare>>
  /\ UNCHANGED dirBefore

\* GetObjectToFile of the next listed key; a key deleted since the listing
\* fails the download.
PullGet(m) ==
  /\ pc[m] = "pull_get"
  /\ LET n == name[m]
         p == Head(pending[m])
     IN  IF remoteData[n][p] = 0
         THEN /\ tmpDir' = [tmpDir EXCEPT ![m][n] = MissingDir]
              /\ pending' = [pending EXCEPT ![m] = <<>>]
              /\ Finish(m, "err_download")
         ELSE /\ tmpDir' = [tmpDir EXCEPT ![m][n].files[p] = remoteData[n][p]]
              /\ pending' = [pending EXCEPT ![m] = Tail(pending[m])]
              /\ IF Tail(pending[m]) = <<>>
                 THEN Goto(m, "pull_rename") ELSE Goto(m, "pull_get")
  /\ UNCHANGED <<remote, localManifestFile, cfgDir, linkPath, remoteManifest,
                 localManifest, newEntry, ranCmds, op, name, clock, ops,
                 edits, bakDir, linkCfg, compare>>
  /\ UNCHANGED dirBefore

PullRename(m) ==
  /\ pc[m] = "pull_rename"
  /\ LET n == name[m]
         r == renameDir(cfgDir[m][n], tmpDir[m][n])
     IN  /\ cfgDir' = [cfgDir EXCEPT ![m][n] = r.dst]
         /\ tmpDir' = [tmpDir EXCEPT ![m][n] = r.tmp]
  /\ Goto(m, "pull_save")
  /\ UNCHANGED <<remote, localManifestFile, linkPath, locals, op, name,
                 clock, ops, edits, bakDir, linkCfg, compare>>

\* localManifest.Entries[name] = remoteManifestEntry, then save.
AdoptRemoteEntry(manifest, n, entry) ==
  [manifest EXCEPT !.entries[n] = entry]

\* Faulty variant: the symbolic links come before the local manifest is
\* saved.
PullSaveLocalSkipped(m) ==
  /\ pc[m] = "pull_save"
  /\ Goto(m, "pull_links")
  /\ UNCHANGED <<remote, disk, locals, op, name, clock, ops, edits, linkCfg, compare>>

PullSaveLocal(m) ==
  /\ pc[m] = "pull_save"
  /\ localManifestFile' = [localManifestFile EXCEPT ![m] =
       saveLocalCfgManifest(AdoptRemoteEntry(localManifest[m], name[m], remoteEntry(m)))]
  /\ Goto(m, "pull_links")
  /\ UNCHANGED <<remote, cfgDir, tmpDir, linkPath, locals, op, name, clock,
                 ops, edits, bakDir, linkCfg, compare>>

PullLinks(m) ==
  /\ pc[m] = "pull_links"
  /\ LET built == buildSymlinkPlans(linkCfg[name[m]])
         r == ensureSymlinks(built.plans, linkPath[m])
     IN  IF built.err # "ok"
         THEN UNCHANGED linkPath /\ Finish(m, built.err)
         ELSE /\ linkPath' = [linkPath EXCEPT ![m] = r.links]
              /\ IF r.ok THEN Goto(m, "pull_cmds") ELSE Finish(m, "err_link")
  /\ UNCHANGED <<remote, localManifestFile, cfgDir, tmpDir, locals, op, name,
                 clock, ops, edits, bakDir, linkCfg, compare>>

PullCmds(m) ==
  /\ pc[m] = "pull_cmds"
  /\ ranCmds' = [ranCmds EXCEPT ![m] = TRUE]
  /\ Finish(m, "ok")
  /\ UNCHANGED <<remote, disk, remoteManifest, localManifest, newEntry,
                 pending, op, name, clock, ops, edits, linkCfg, compare>>
  /\ UNCHANGED dirBefore

\* ----------------------------------------------------------------- Push
\* Faulty variants of the checks of CfgCmd.Push.  Without the comparison of
\* the revisions:
PushDecisionNoRevisionCheck(dir, lr, rr, remoteExists, fs, entry) ==
  IF ~dir.exists THEN "err_no_source"
  ELSE IF remoteExists /\ isCfgManifestFilesEqual(fs, entry.files) THEN "skipped"
  ELSE "upload"

\* Skipping whenever the revisions are equal:
PushDecisionSkipsAtSameRevision(dir, lr, rr, remoteExists, fs, entry) ==
  IF ~dir.exists THEN "err_no_source"
  ELSE IF lr < rr THEN "err_pull_first"
  ELSE IF remoteExists /\ lr = rr THEN "skipped"
  ELSE "upload"

\* Without the comparison of the snapshot with the remote entry:
PushDecisionNeverSkips(dir, lr, rr, remoteExists, fs, entry) ==
  IF ~dir.exists THEN "err_no_source"
  ELSE IF lr < rr THEN "err_pull_first"
  ELSE "upload"

\* CfgCmd.Push up to the upload: what it returns, or "upload" to go on.
PushDecision(dir, lr, rr, remoteExists, fs, entry) ==
  IF ~dir.exists THEN "err_no_source"
  ELSE IF lr < rr THEN "err_pull_first"
  ELSE IF remoteExists /\ isCfgManifestFilesEqual(fs, entry.files) THEN "skipped"
  ELSE "upload"

\* Faulty variant: the remote revision plus one.
NewRevisionFromRemote(lr, rr) == rr + 1

\* newRevision := localRevision + 1
NewRevision(lr, rr) == lr + 1

\* The body of Push up to the decision, for Push itself and for Init.
\* A skipped Push returns nil, so Init goes on with the removal.
\* Faulty variant: a missing remote manifest object is an error.
PushStartNotFoundIsError(m, n, inInit) ==
  LET dir == cfgDir[m][n]
      rm == loadRemoteCfgManifest(remoteManifestObj)
      lm == loadLocalCfgManifest(localManifestFile[m])
      re == rm.entries[n]
      rr == RevisionOf(re)
      lr == RevisionOf(lm.entries[n])
      fs == buildCfgFileSnapshot(dir)
      d  == IF dir.exists /\ ~remoteManifestObj.exists
            THEN "err_remote_manifest_not_found"
            ELSE PushDecision(dir, lr, rr, re.present, fs, re)
  IN  /\ remoteManifest' = [remoteManifest EXCEPT ![m] = rm]
      /\ localManifest' = [localManifest EXCEPT ![m] = lm]
      /\ IF d = "upload"
         THEN /\ newEntry' = [newEntry EXCEPT ![m] =
                    buildManifestEntry(m, n, NewRevision(lr, rr), fs, clock)]
              /\ clock' = clock + 1
              /\ Goto(m, "push_delete")
         ELSE /\ newEntry' = [newEntry EXCEPT ![m] = NoEntry]
              /\ UNCHANGED clock
              /\ IF inInit /\ d = "skipped"
                 THEN Goto(m, "init_remove") ELSE Finish(m, d)

PushStart(m, n, inInit) ==
  LET dir == cfgDir[m][n]
      rm == loadRemoteCfgManifest(remoteManifestObj)
      lm == loadLocalCfgManifest(localManifestFile[m])
      re == rm.entries[n]
      rr == RevisionOf(re)
      lr == RevisionOf(lm.entries[n])
      fs == buildCfgFileSnapshot(dir)
      d  == PushDecision(dir, lr, rr, re.present, fs, re)
  IN  /\ remoteManifest' = [remoteManifest EXCEPT ![m] = rm]
      /\ localManifest' = [localManifest EXCEPT ![m] = lm]
      /\ IF d = "upload"
         THEN /\ newEntry' = [newEntry EXCEPT ![m] =
                    buildManifestEntry(m, n, NewRevision(lr, rr), fs, clock)]
              /\ clock' = clock + 1
              /\ Goto(m, "push_delete")
         ELSE /\ newEntry' = [newEntry EXCEPT ![m] = NoEntry]
              /\ UNCHANGED clock
              /\ IF inInit /\ d = "skipped"
                 THEN Goto(m, "init_remove") ELSE Finish(m, d)

Push(m, n) ==
  /\ Begin(m, n, "push")
  /\ PushStart(m, n, FALSE)
  /\ UNCHANGED <<remote, disk, edits, linkCfg, compare>>

\* OSSClient.Push of a directory starts with deletePrefixContents.
deletePrefixContents(objs) == NoFiles

PushDelete(m) ==
  /\ pc[m] = "push_delete"
  /\ LET n == name[m]
         todo == WalkPaths(cfgDir[m][n])
     IN  /\ remoteData' = [remoteData EXCEPT ![n] = deletePrefixContents(remoteData[n])]
         /\ pending' = [pending EXCEPT ![m] = todo]
         /\ IF todo = <<>> THEN Goto(m, "push_save_remote") ELSE Goto(m, "push_put")
  /\ UNCHANGED <<remoteManifestObj, disk, remoteManifest, localManifest,
                 newEntry, ranCmds, op, name, clock, ops, edits, linkCfg, compare>>
  /\ UNCHANGED dirBefore

\* PutObjectFromFile of the next file of the walk.
PushPut(m) ==
  /\ pc[m] = "push_put"
  /\ LET n == name[m]
         p == Head(pending[m])
     IN  /\ remoteData' = [remoteData EXCEPT ![n][p] = cfgDir[m][n].files[p]]
         /\ pending' = [pending EXCEPT ![m] = Tail(pending[m])]
         /\ IF Tail(pending[m]) = <<>>
            THEN Goto(m, "push_save_remote") ELSE Goto(m, "push_put")
  /\ UNCHANGED <<remoteManifestObj, disk, remoteManifest, localManifest,
                 newEntry, ranCmds, op, name, clock, ops, edits, linkCfg, compare>>
  /\ UNCHANGED dirBefore

\* Faulty variant: a manifest that holds the new entry only.
RemoteManifestOfNewEntryOnly(loaded, n, entry) ==
  [loaded EXCEPT !.entries = [k \in Names |-> IF k = n THEN entry ELSE NoEntry]]

\* remoteManifest.Entries[name] = newEntry on the manifest as loaded: the
\* whole manifest object is replaced.
RemoteManifestToSave(loaded, n, entry) == [loaded EXCEPT !.entries[n] = entry]

\* Faulty variant: the local manifest saved as loaded.
LocalManifestUnchanged(loaded, n, entry) == loaded

\* localManifest.Entries[name] = newEntry on the manifest as loaded.
LocalManifestToSave(loaded, n, entry) == [loaded EXCEPT !.entries[n] = entry]

\* Faulty variant: the new entry set on the local manifest and that one
\* saved as the remote manifest.
PushSaveRemoteFromLocal(m) ==
  /\ pc[m] = "push_save_remote"
  /\ remoteManifestObj' = saveRemoteCfgManifest(
       RemoteManifestToSave(localManifest[m], name[m], newEntry[m]))
  /\ Goto(m, "push_save_local")
  /\ UNCHANGED <<remoteData, disk, locals, op, name, clock, ops, edits,
                 linkCfg, compare>>

PushSaveRemote(m) ==
  /\ pc[m] = "push_save_remote"
  /\ remoteManifestObj' = saveRemoteCfgManifest(
       RemoteManifestToSave(remoteManifest[m], name[m], newEntry[m]))
  /\ Goto(m, "push_save_local")
  /\ UNCHANGED <<remoteData, disk, locals, op, name, clock, ops, edits,
                 linkCfg, compare>>

PushSaveLocal(m) ==
  /\ pc[m] = "push_save_local"
  /\ localManifestFile' = [localManifestFile EXCEPT ![m] = saveLocalCfgManifest(
       LocalManifestToSave(localManifest[m], name[m], newEntry[m]))]
  /\ IF op[m] = "init" THEN Goto(m, "init_remove") ELSE Finish(m, "ok")
  /\ UNCHANGED <<remote, cfgDir, tmpDir, linkPath, locals, op, name, clock,
                 ops, edits, bakDir, linkCfg, compare>>

\* ----------------------------------------------------------------- Init
\* The checks of CfgCmd.Init before the copy.
\* Faulty variant: a link path that is already the managed symbolic link
\* is not told apart from a plain directory.
InitDecisionNoSymlinkCheck(links, lps, dir) ==
  LET built == buildSymlinkPlans(links)
      primary == findPrimaryLinkPath(links, built.plans)
  IN  IF built.err # "ok" THEN built.err
      ELSE IF primary.err # "ok" THEN primary.err
      ELSE IF lps[primary.link].kind = "absent" THEN "err_link_missing"
      ELSE IF dir.exists THEN "err_local_exists"
      ELSE "copy"

\* The checks of CfgCmd.Init before the copy; lps is what is at each link
\* path of the machine, dir the managed directory.
InitDecision(links, lps, dir) ==
  LET built == buildSymlinkPlans(links)
      primary == findPrimaryLinkPath(links, built.plans)
  IN  IF built.err # "ok" THEN built.err
      ELSE IF primary.err # "ok" THEN primary.err
      ELSE IF lps[primary.link].kind = "absent" THEN "err_link_missing"
      ELSE IF lps[primary.link] = ManagedSymlink THEN "err_already_initialized"
      ELSE IF lps[primary.link].kind # "dir" THEN "err_unexpected_symlink"
      ELSE IF dir.exists THEN "err_local_exists"
      ELSE "copy"

\* primaryLinkPath of the running Init.
primaryLinkPath(m) ==
  findPrimaryLinkPath(linkCfg[name[m]],
                      buildSymlinkPlans(linkCfg[name[m]]).plans).link

InitCfg(m, n) ==
  /\ Begin(m, n, "init")
  /\ LET d == InitDecision(linkCfg[n], linkPath[m], cfgDir[m][n])
     IN  IF d = "copy" THEN Goto(m, "init_copy") ELSE Finish(m, d)
  /\ remoteManifest' = [remoteManifest EXCEPT ![m] = defaultCfgManifest]
  /\ localManifest' = [localManifest EXCEPT ![m] = defaultCfgManifest]
  /\ newEntry' = [newEntry EXCEPT ![m] = NoEntry]
  /\ UNCHANGED <<remote, disk, clock, edits, linkCfg, compare>>

\* copyDirForCfgInit: the copy is staged under ".tmp" and renamed.
copyDirForCfgInit(lp) == DirOf(lp.files)

InitCopy(m) ==
  /\ pc[m] = "init_copy"
  /\ cfgDir' = [cfgDir EXCEPT ![m][name[m]] = copyDirForCfgInit(linkPath[m][primaryLinkPath(m)])]
  /\ Goto(m, "init_push")
  /\ UNCHANGED <<remote, localManifestFile, tmpDir, linkPath, locals, op,
                 name, clock, ops, edits, bakDir, linkCfg, compare>>

\* Faulty variant: the original directory removed before Push is called.
InitPushAfterRemoval(m) ==
  /\ pc[m] = "init_push"
  /\ PushStart(m, name[m], TRUE)
  /\ linkPath' = [linkPath EXCEPT ![m][primaryLinkPath(m)] = AbsentLink]
  /\ UNCHANGED <<remote, localManifestFile, cfgDir, tmpDir, bakDir, pending,
                 ranCmds, op, name, ops, edits, linkCfg, compare>>
  /\ UNCHANGED dirBefore

InitPush(m) ==
  /\ pc[m] = "init_push"
  /\ PushStart(m, name[m], TRUE)
  /\ UNCHANGED <<remote, disk, pending, ranCmds, op, name, ops, edits,
                 linkCfg, compare>>
  /\ UNCHANGED dirBefore

\* os.RemoveAll(primaryLinkPath)
InitRemove(m) ==
  /\ pc[m] = "init_remove"
  /\ linkPath' = [linkPath EXCEPT ![m][primaryLinkPath(m)] = AbsentLink]
  /\ Goto(m, "init_links")
  /\ UNCHANGED <<remote, localManifestFile, cfgDir, tmpDir, locals, op, name,
                 clock, ops, edits, bakDir, linkCfg, compare>>

InitLinks(m) ==
  /\ pc[m] = "init_links"
  /\ LET r == ensureSymlinks(buildSymlinkPlans(linkCfg[name[m]]).plans,
                             linkPath[m])
     IN  /\ linkPath' = [linkPath EXCEPT ![m] = r.links]
         /\ IF r.ok THEN Goto(m, "init_cmds") ELSE Finish(m, "err_link")
  /\ UNCHANGED <<remote, localManifestFile, cfgDir, tmpDir, locals, op, name,
                 clock, ops, edits, bakDir, linkCfg, compare>>

InitCmds(m) ==
  /\ pc[m] = "init_cmds"
  /\ ranCmds' = [ranCmds EXCEPT ![m] = TRUE]
  /\ Finish(m, "ok")
  /\ UNCHANGED <<remote, disk, remoteManifest, localManifest, newEntry,
                 pending, op, name, clock, ops, edits, linkCfg, compare>>
  /\ UNCHANGED dirBefore

\* ------------------------------------------------------- process exit
\* The process has exited; its variables are gone.
Return(m) ==
  /\ pc[m] = "done"
  /\ pc' = [pc EXCEPT ![m] = "idle"]
  /\ op' = [op EXCEPT ![m] = "none"]
  /\ name' = [name EXCEPT ![m] = "nvim"]
  /\ result' = [result EXCEPT ![m] = "none"]
  /\ remoteManifest' = [remoteManifest EXCEPT ![m] = defaultCfgManifest]
  /\ localManifest' = [localManifest EXCEPT ![m] = defaultCfgManifest]
  /\ newEntry' = [newEntry EXCEPT ![m] = NoEntry]
  /\ pending' = [pending EXCEPT ![m] = <<>>]
  /\ ranCmds' = [ranCmds EXCEPT ![m] = FALSE]
  /\ dirBefore' = [dirBefore EXCEPT ![m] = MissingDir]
  /\ UNCHANGED <<remote, disk, clock, ops, edits, linkCfg, compare>>

\* ------------------------------------------------- renameDir, stepwise
\* renameDir(dst, tmp) one system call at a time.
\* Faulty variant: the target is removed instead of renamed to bak.
RenameBackupRemoves(m) ==
  /\ pc[m] = "pull_rename"
  /\ cfgDir' = [cfgDir EXCEPT ![m][name[m]] = MissingDir]
  /\ bakDir' = [bakDir EXCEPT ![m][name[m]] = MissingDir]
  /\ Goto(m, "pull_commit")
  /\ UNCHANGED <<remote, localManifestFile, tmpDir, linkPath, locals, op, name,
                 clock, ops, edits, linkCfg, compare>>

\* os.RemoveAll(bak), then os.Rename(dst, bak) when dst exists.
RenameBackup(m) ==
  /\ pc[m] = "pull_rename"
  /\ LET n == name[m]
     IN  IF cfgDir[m][n].exists
         THEN /\ bakDir' = [bakDir EXCEPT ![m][n] = cfgDir[m][n]]
              /\ cfgDir' = [cfgDir EXCEPT ![m][n] = MissingDir]
         ELSE /\ bakDir' = [bakDir EXCEPT ![m][n] = MissingDir]
              /\ UNCHANGED cfgDir
  /\ Goto(m, "pull_commit")
  /\ UNCHANGED <<remote, localManifestFile, tmpDir, linkPath, locals, op, name,
                 clock, ops, edits, linkCfg, compare>>

\* os.Rename(dst, bak) fails: renameDir returns the error and doPull
\* removes the staging directory.
RenameBackupFails(m) ==
  /\ pc[m] = "pull_rename"
  /\ cfgDir[m][name[m]].exists
  /\ bakDir' = [bakDir EXCEPT ![m][name[m]] = MissingDir]
  /\ tmpDir' = [tmpDir EXCEPT ![m][name[m]] = MissingDir]
  /\ Finish(m, "err_rename")
  /\ UNCHANGED <<remote, localManifestFile, cfgDir, linkPath, locals, op, name,
                 clock, ops, edits, linkCfg, compare>>

\* os.Rename(tmp, dst)
RenameCommit(m) ==
  /\ pc[m] = "pull_commit"
  /\ cfgDir' = [cfgDir EXCEPT ![m][name[m]] = tmpDir[m][name[m]]]
  /\ tmpDir' = [tmpDir EXCEPT ![m][name[m]] = MissingDir]
  /\ Goto(m, "pull_unbak")
  /\ UNCHANGED <<remote, localManifestFile, bakDir, linkPath, locals, op, name,
                 clock, ops, edits, linkCfg, compare>>

\* os.Rename(tmp, dst) fails: when bak exists, os.Rename(bak, dst) is tried
\* and its error dropped, so the backup is restored or it is not; renameDir
\* returns the error and doPull removes the staging directory.
RenameCommitFails(m, restored) ==
  /\ pc[m] = "pull_commit"
  /\ LET n == name[m]
     IN  IF bakDir[m][n].exists /\ restored
         THEN /\ cfgDir' = [cfgDir EXCEPT ![m][n] = bakDir[m][n]]
              /\ bakDir' = [bakDir EXCEPT ![m][n] = MissingDir]
         ELSE UNCHANGED <<cfgDir, bakDir>>
  /\ tmpDir' = [tmpDir EXCEPT ![m][name[m]] = MissingDir]
  /\ Finish(m, "err_rename")
  /\ UNCHANGED <<remote, localManifestFile, linkPath, locals, op, name,
                 clock, ops, edits, linkCfg, compare>>

\* The closing os.RemoveAll(bak).
RenameCleanup(m) ==
  /\ pc[m] = "pull_unbak"
  /\ bakDir' = [bakDir EXCEPT ![m][name[m]] = MissingDir]
  /\ Goto(m, "pull_save")
  /\ UNCHANGED <<remote, localManifestFile, cfgDir, tmpDir, linkPath, locals,
                 op, name, clock, ops, edits, linkCfg, compare>>

\* ------------------------------------------------------ failing calls
\* The backend fails, other than with not-found, while the remote manifest
\* is loaded: Pull and Push return the error.
PullLoadFails(m, n) ==
  /\ Begin(m, n, "pull")
  /\ Finish(m, "err_load_remote")
  /\ remoteManifest' = [remoteManifest EXCEPT ![m] = defaultCfgManifest]
  /\ localManifest' = [localManifest EXCEPT ![m] = defaultCfgManifest]
  /\ newEntry' = [newEntry EXCEPT ![m] = NoEntry]
  /\ UNCHANGED <<remote, disk, clock, edits, linkCfg, compare>>

PushLoadFails(m, n) ==
  /\ Begin(m, n, "push")
  /\ cfgDir[m][n].exists
  /\ Finish(m, "err_load_remote")
  /\ remoteManifest' = [remoteManifest EXCEPT ![m] = defaultCfgManifest]
  /\ localManifest' = [localManifest EXCEPT ![m] = defaultCfgManifest]
  /\ newEntry' = [newEntry EXCEPT ![m] = NoEntry]
  /\ UNCHANGED <<remote, disk, clock, edits, linkCfg, compare>>

InitPushLoadFails(m) ==
  /\ pc[m] = "init_push"
  /\ Finish(m, "err_load_remote")
  /\ UNCHANGED <<remote, disk, locals, op, name, clock, ops, edits, linkCfg, compare>>

\* ListObjectsV2 or GetObjectToFile fails: doPull removes the staging
\* directory.
PullDownloadFails(m) ==
  /\ pc[m] \in {"pull_list", "pull_get"}
  /\ tmpDir' = [tmpDir EXCEPT ![m][name[m]] = MissingDir]
  /\ pending' = [pending EXCEPT ![m] = <<>>]
  /\ Finish(m, "err_download")
  /\ UNCHANGED <<remote, localManifestFile, cfgDir, bakDir, linkPath,
                 remoteManifest, localManifest, newEntry, ranCmds, op, name,
                 clock, ops, edits, linkCfg, compare>>
  /\ UNCHANGED dirBefore

\* saveLocalCfgManifest fails in doPull: the manifest file is as before.
PullSaveLocalFails(m) ==
  /\ pc[m] = "pull_save"
  /\ Finish(m, "err_save_local")
  /\ UNCHANGED <<remote, disk, locals, op, name, clock, ops, edits, linkCfg, compare>>

\* A post-sync command of Pull exits with an error.
PullCmdsFails(m) ==
  /\ pc[m] = "pull_cmds"
  /\ ranCmds' = [ranCmds EXCEPT ![m] = TRUE]
  /\ Finish(m, "err_cmd")
  /\ UNCHANGED <<remote, disk, remoteManifest, localManifest, newEntry,
                 pending, op, name, clock, ops, edits, linkCfg, compare>>
  /\ UNCHANGED dirBefore

\* OSSClient.Push fails while it lists, deletes or uploads: the objects
\* stay as they are at that point.
PushUploadFails(m) ==
  /\ pc[m] \in {"push_delete", "push_put"}
  /\ pending' = [pending EXCEPT ![m] = <<>>]
  /\ Finish(m, "err_upload")
  /\ UNCHANGED <<remote, disk, remoteManifest, localManifest, newEntry,
                 ranCmds, op, name, clock, ops, edits, linkCfg, compare>>
  /\ UNCHANGED dirBefore

PushSaveRemoteFails(m) ==
  /\ pc[m] = "push_save_remote"
  /\ Finish(m, "err_save_remote")
  /\ UNCHANGED <<remote, disk, locals, op, name, clock, ops, edits, linkCfg, compare>>

PushSaveLocalFails(m) ==
  /\ pc[m] = "push_save_local"
  /\ Finish(m, "err_save_local")
  /\ UNCHANGED <<remote, disk, locals, op, name, clock, ops, edits, linkCfg, compare>>

\* The process dies between saveRemoteCfgManifest and saveLocalCfgManifest.
PushCrash(m) ==
  /\ pc[m] = "push_save_local"
  /\ Finish(m, "crashed")
  /\ UNCHANGED <<remote, disk, locals, op, name, clock, ops, edits, linkCfg, compare>>

\* copyDirForCfgInit fails: its staging directory is removed and the
\* managed directory is not created.
InitCopyFails(m) ==
  /\ pc[m] = "init_copy"
  /\ Finish(m, "err_copy")
  /\ UNCHANGED <<remote, disk, locals, op, name, clock, ops, edits, linkCfg, compare>>

\* ---------------------------------------- copyDirForCfgInit, stepwise
\* os.RemoveAll(tmpDst), the two os.MkdirAll, and the walk finds its files.
InitCopyStage(m) ==
  /\ pc[m] = "init_copy"
  /\ LET todo == WalkPaths(linkPath[m][primaryLinkPath(m)])
     IN  /\ tmpDir' = [tmpDir EXCEPT ![m][name[m]] = EmptyDir]
         /\ pending' = [pending EXCEPT ![m] = todo]
         /\ IF todo = <<>> THEN Goto(m, "init_copy_rename")
                           ELSE Goto(m, "init_copy_file")
  /\ UNCHANGED <<remote, localManifestFile, cfgDir, bakDir, linkPath,
                 remoteManifest, localManifest, newEntry, ranCmds, dirBefore,
                 op, name, clock, ops, edits, linkCfg, compare>>

\* Faulty variant: the walk copies the file into the managed directory.
InitCopyFileInPlace(m) ==
  /\ pc[m] = "init_copy_file"
  /\ LET n == name[m]
         p == Head(pending[m])
     IN  /\ cfgDir' = [cfgDir EXCEPT ![m][n] =
                         DirOf([cfgDir[m][n].files EXCEPT ![p] =
                                  linkPath[m][primaryLinkPath(m)].files[p]])]
         /\ pending' = [pending EXCEPT ![m] = Tail(pending[m])]
         /\ IF Tail(pending[m]) = <<>>
            THEN Goto(m, "init_push") ELSE Goto(m, "init_copy_file")
  /\ UNCHANGED <<remote, localManifestFile, tmpDir, bakDir, linkPath,
                 remoteManifest, localManifest, newEntry, ranCmds, dirBefore,
                 op, name, clock, ops, edits, linkCfg, compare>>

\* The walk copies the next regular file into the staging directory.
InitCopyFile(m) ==
  /\ pc[m] = "init_copy_file"
  /\ LET n == name[m]
         p == Head(pending[m])
     IN  /\ tmpDir' = [tmpDir EXCEPT ![m][n].files[p] =
                         linkPath[m][primaryLinkPath(m)].files[p]]
         /\ pending' = [pending EXCEPT ![m] = Tail(pending[m])]
         /\ IF Tail(pending[m]) = <<>>
            THEN Goto(m, "init_copy_rename") ELSE Goto(m, "init_copy_file")
  /\ UNCHANGED <<remote, localManifestFile, cfgDir, bakDir, linkPath,
                 remoteManifest, localManifest, newEntry, ranCmds, dirBefore,
                 op, name, clock, ops, edits, linkCfg, compare>>

\* os.Rename(tmpDst, dst)
InitCopyRename(m) ==
  /\ pc[m] = "init_copy_rename"
  /\ cfgDir' = [cfgDir EXCEPT ![m][name[m]] = tmpDir[m][name[m]]]
  /\ tmpDir' = [tmpDir EXCEPT ![m][name[m]] = MissingDir]
  /\ Goto(m, "init_push")
  /\ UNCHANGED <<remote, localManifestFile, bakDir, linkPath, locals, op,
                 name, clock, ops, edits, linkCfg, compare>>

\* The copy of a file or the rename fails: the staging directory is
\* removed and the error returned.
InitCopyFileFails(m) ==
  /\ pc[m] \in {"init_copy_file", "init_copy_rename"}
  /\ tmpDir' = [tmpDir EXCEPT ![m][name[m]] = MissingDir]
  /\ pending' = [pending EXCEPT ![m] = <<>>]
  /\ Finish(m, "err_copy")
  /\ UNCHANGED <<remote, localManifestFile, cfgDir, bakDir, linkPath,
                 remoteManifest, localManifest, newEntry, ranCmds, dirBefore,
                 op, name, clock, ops, edits, linkCfg, compare>>

\* ------------------------------------------------------------ the user
\* The user writes a file of the managed directory (creating the directory
\* when it is missing), deletes one, or removes the directory.
UserWrite(m, n, p, c) ==
  /\ pc[m] = "idle"
  /\ cfgDir[m][n].files[p] # c
  /\ cfgDir' = [cfgDir EXCEPT ![m][n] = DirOf([cfgDir[m][n].files EXCEPT ![p] = c])]
  /\ edits' = edits + 1
  /\ UNCHANGED <<remote, localManifestFile, tmpDir, linkPath, locals, ctl,
                 clock, ops, bakDir, linkCfg, compare>>

UserDelete(m, n, p) ==
  /\ pc[m] = "idle"
  /\ cfgDir[m][n].files[p] # 0
  /\ cfgDir' = [cfgDir EXCEPT ![m][n].files[p] = 0]
  /\ edits' = edits + 1
  /\ UNCHANGED <<remote, localManifestFile, tmpDir, linkPath, locals, ctl,
                 clock, ops, bakDir, linkCfg, compare>>

UserRemoveDir(m, n) ==
  /\ pc[m] = "idle"
  /\ cfgDir[m][n].exists
  /\ cfgDir' = [cfgDir EXCEPT ![m][n] = MissingDir]
  /\ edits' = edits + 1
  /\ UNCHANGED <<remote, localManifestFile, tmpDir, linkPath, locals, ctl,
                 clock, ops, bakDir, linkCfg, compare>>

\* ------------------------------------------------------ specifications
\* The steps other than the directory replacement of Pull.
StepBase(m) ==
  \/ PullList(m) \/ PullGet(m) \/ PullSaveLocal(m)
  \/ PullLinks(m) \/ PullCmds(m)
  \/ PushDelete(m) \/ PushPut(m) \/ PushSaveRemote(m) \/ PushSaveLocal(m)
  \/ InitCopy(m) \/ InitPush(m) \/ InitRemove(m) \/ InitLinks(m) \/ InitCmds(m)
  \/ Return(m)

\* With no failing call renameDir is one step.
Step(m) == StepBase(m) \/ PullRename(m)

Start(m, n) ==
  /\ ops < MaxOps
  /\ (Pull(m, n) \/ Push(m, n) \/ InitCfg(m, n))

User(m, n) ==
  /\ edits < MaxEdits
  /\ n \in UserEdits
  /\ \/ \E p \in Paths : \E c \in Contents[p] : UserWrite(m, n, p, c)
     \/ \E p \in Paths : UserDelete(m, n, p)
     \/ UserRemoveDir(m, n)

\* Invocations of different machines interleave step by step.
Next ==
  \E m \in Machines :
    \/ Step(m)
    \/ \E n \in Names : Start(m, n) \/ User(m, n)

Spec == Init /\ [][Next]_vars

\* No two invocations overlap: a process starts, and the user edits, only
\* when no other machine runs or is returning from an invocation.
Quiet(m) == \A o \in Machines \ {m} : pc[o] = "idle"

NextSeq ==
  \E m \in Machines :
    \/ Step(m)
    \/ \E n \in Names : Quiet(m) /\ (Start(m, n) \/ User(m, n))

SpecSeq == Init /\ [][NextSeq]_vars

\* The same, the settings file giving nvim any of the link specifications.
InitLinkCfg ==
  \E links \in LinkCfgs :
    InitWith([LinkCfg EXCEPT !["nvim"] = links], NoManifestFile)

SpecLinkCfg == InitLinkCfg /\ [][NextSeq]_vars

\* The same, the bucket holding at first a manifest object written by hand
\* in which some names have an entry of revision 0 without files.
InitZeroEntry ==
  \E zs \in SUBSET Names :
    InitWith(LinkCfg,
             saveRemoteCfgManifest(
               [defaultCfgManifest EXCEPT
                  !.entries = [n \in Names |-> IF n \in zs THEN ZeroEntry
                                                ELSE NoEntry]]))

SpecZeroEntry == InitZeroEntry /\ [][NextSeq]_vars

\* renameDir one system call at a time.
RenameStep(m) == RenameBackup(m) \/ RenameCommit(m) \/ RenameCleanup(m)

\* A call into the file system, the backend or a command fails.
Fails(m) ==
  \/ RenameBackupFails(m)
  \/ \E restored \in BOOLEAN : RenameCommitFails(m, restored)
  \/ InitPushLoadFails(m)
  \/ PullDownloadFails(m) \/ PullSaveLocalFails(m) \/ PullCmdsFails(m)
  \/ PushUploadFails(m) \/ PushSaveRemoteFails(m) \/ PushSaveLocalFails(m)
  \/ InitCopyFails(m)

StartFails(m, n) ==
  /\ ops < MaxOps
  /\ (PullLoadFails(m, n) \/ PushLoadFails(m, n))

\* Invocations that do not overlap, in which any call may fail.
NextFail ==
  \E m \in Machines :
    \/ StepBase(m)
    \/ RenameStep(m)
    \/ Fails(m)
    \/ \E n \in Names : Quiet(m) /\ (Start(m, n) \/ StartFails(m, n) \/ User(m, n))

SpecFail == Init /\ [][NextFail]_vars

\* Invocations that do not overlap, a Push possibly dying after it has
\* saved the remote manifest.
NextCrash ==
  \E m \in Machines :
    \/ Step(m)
    \/ PushCrash(m)
    \/ \E n \in Names : Quiet(m) /\ (Start(m, n) \/ User(m, n))

SpecCrash == Init /\ [][NextCrash]_vars

\* ---------------------------------- isCfgManifestFilesEqual on its own
\* The file lists a caller may pass: up to MaxFiles entries in any order,
\* a path possibly twice.
MaxFiles == 2
FileEntries ==
  { [path |-> p, size |-> z[1], sha256 |-> z[2]] :
      p \in Paths, z \in {<<4, 101>>, <<4, 102>>, <<5, 101>>} }
FileLists == UNION { [1..k -> FileEntries] : k \in 0..MaxFiles }

\* Faulty variant: the caller's slices are sorted in place.
isCfgManifestFilesEqualCallInPlace(a, b) ==
  [equal |-> isCfgManifestFilesEqual(a, b),
   a |-> SortByPath(a), b |-> SortByPath(b)]

\* A call: what it returns and what the caller's slices hold afterwards;
\* the sorting is done on copies (append to a nil slice).
isCfgManifestFilesEqualCall(a, b) ==
  [equal |-> isCfgManifestFilesEqual(a, b), a |-> a, b |-> b]

CompareFiles ==
  /\ filesEqual = "none"
  /\ LET r == isCfgManifestFilesEqualCall(filesA, filesB)
     IN  /\ filesEqual' = (IF r.equal THEN "true" ELSE "false")
         /\ filesA' = r.a
         /\ filesB' = r.b
  /\ UNCHANGED <<remote, disk, locals, ctl, clock, ops, edits, linkCfg>>

InitCompare ==
  /\ InitState(LinkCfg, NoManifestFile,
               [m \in Machines |-> [n \in LinkPaths |-> OriginalLink(m, n)]])
  /\ filesA \in FileLists
  /\ filesB \in FileLists
  /\ filesEqual = "none"

NextCompare == CompareFiles

SpecCompare == InitCompare /\ [][NextCompare]_vars

\* The directories Init may find at the link path of nvim.
SourceDirs ==
  { PlainDir([NoFiles EXCEPT !["a.txt"] = 1]),
    PlainDir([NoFiles EXCEPT !["a.txt"] = 2, !["b.txt"] = 1]),
    PlainDir(NoFiles) }

\* Each machine holds one of these at the link path of nvim.
InitSourceDirs ==
  /\ \E src \in [Machines -> SourceDirs] :
       InitState(LinkCfg, NoManifestFile,
                 [m \in Machines |->
                    [n \in LinkPaths |-> IF n = "nvim" THEN src[m]
                                           ELSE OriginalLink(m, n)]])
  /\ NoCompare

\* Init alone, copyDirForCfgInit one file at a time, each of its calls
\* failing or not; invocations do not overlap.
NextCopy ==
  \E m \in Machines :
    \/ InitCopyStage(m) \/ InitCopyFile(m) \/ InitCopyRename(m)
    \/ InitCopyFails(m) \/ InitCopyFileFails(m)
    \/ InitPush(m)
    \/ PushDelete(m) \/ PushPut(m) \/ PushSaveRemote(m) \/ PushSaveLocal(m)
    \/ InitRemove(m) \/ InitLinks(m) \/ InitCmds(m)
    \/ Return(m)
    \/ \E n \in Names : Quiet(m) /\ ops < MaxOps /\ InitCfg(m, n)

SpecCopy == InitSourceDirs /\ [][NextCopy]_vars

\* ------------------------------------------------- reading the state
\* The entries and revisions the manifests on disk and in the bucket hold.
LocalEntry(m, n) == loadLocalCfgManifest(localManifestFile[m]).entries[n]
RemoteEntry(n) == loadRemoteCfgManifest(remoteManifestObj).entries[n]
LocalRev(m, n) == RevisionOf(LocalEntry(m, n))
RemoteRev(n) == RevisionOf(RemoteEntry(n))
Snapshot(m, n) == buildCfgFileSnapshot(cfgDir[m][n])

\* The step in which machine m starts Pull / Push (Push also as called by
\* Init); the name is name'[m].
PullStarts(m) == pc[m] = "idle" /\ pc'[m] # "idle" /\ op'[m] = "pull"
PushStarts(m) ==
  \/ pc[m] = "idle" /\ pc'[m] # "idle" /\ op'[m] = "push"
  \/ pc[m] = "init_push" /\ pc'[m] # "init_push"

\* Nothing in the bucket and nothing on any disk changes.
NoMutation == UNCHANGED <<remote, disk>>

\* Machine m saves a remote manifest it loaded before another invocation
\* saved the remote manifest.
StaleSave(m) ==
  /\ pc[m] = "push_save_remote"
  /\ pc'[m] = "push_save_local"
  /\ remoteManifest[m] # loadRemoteCfgManifest(remoteManifestObj)

\* ---------------------------------------------------------------- C1
\* C1: a Pull started with the local revision above the remote revision
\* returns the local-is-newer conflict in that very step and changes
\* nothing: bucket, manifests, managed directory and link path are as
\* before and no post-sync command has run.
C1_PullLocalNewerConflict ==
  [][\A m \in Machines :
       (PullStarts(m) /\ LocalRev(m, name'[m]) > RemoteRev(name'[m]))
         => /\ pc'[m] = "done"
            /\ result'[m] = "err_local_newer"
            /\ NoMutation
            /\ ranCmds'[m] = FALSE]_vars

C1_Witness ==
  \E m \in Machines :
    /\ pc[m] = "done" /\ op[m] = "pull" /\ result[m] = "err_local_newer"
    /\ localRevision(m) > remoteRevision(m)

\* ---------------------------------------------------------------- C2
\* C2: with no overlapping invocation and no failing step (the link path
\* is free), a Pull that found the local revision below the remote
\* revision and a remote entry returns success, and then the snapshot of
\* the managed directory is the remote entry's file list and the local
\* entry is the remote entry.
C2_PullAdoptsRemoteEntry ==
  \A m \in Machines :
    (/\ pc[m] = "done" /\ op[m] = "pull"
     /\ localRevision(m) < remoteRevision(m)
     /\ remoteEntry(m).present
     /\ result[m] # "err_link")
      => /\ result[m] = "ok"
         /\ Snapshot(m, name[m]) = RemoteEntry(name[m]).files
         /\ LocalEntry(m, name[m]) = RemoteEntry(name[m])

\* ---------------------------------------------------------------- C3
\* C3 as stated: a Pull started at equal revisions with a remote entry
\* ends in that step without any mutation, skipped when the snapshot (the
\* empty list for a missing directory) is the entry's file list and with
\* the divergence error otherwise.
C3_SameRevisionComparesSnapshot ==
  [][\A m \in Machines :
       (/\ PullStarts(m)
        /\ LocalRev(m, name'[m]) = RemoteRev(name'[m])
        /\ RemoteEntry(name'[m]).present)
         => /\ pc'[m] = "done"
            /\ NoMutation
            /\ result'[m] = IF Snapshot(m, name'[m]) = RemoteEntry(name'[m]).files
                            THEN "skipped" ELSE "err_diverged"]_vars

\* C3 amended: that holds when the managed directory exists; when it is
\* missing the Pull takes the transfer path instead.
C3_SameRevisionExistingDir ==
  [][\A m \in Machines :
       (/\ PullStarts(m)
        /\ LocalRev(m, name'[m]) = RemoteRev(name'[m])
        /\ RemoteEntry(name'[m]).present)
         => /\ NoMutation
            /\ IF cfgDir[m][name'[m]].exists
               THEN /\ pc'[m] = "done"
                    /\ result'[m] =
                         IF Snapshot(m, name'[m]) = RemoteEntry(name'[m]).files
                         THEN "skipped" ELSE "err_diverged"
               ELSE pc'[m] = "pull_list"]_vars

C3_Witness ==
  \E m \in Machines :
    /\ pc[m] = "done" /\ op[m] = "pull" /\ result[m] = "err_diverged"
    /\ localRevision(m) = remoteRevision(m)
    /\ remoteEntry(m).present
    /\ cfgDir[m][name[m]].exists

\* ---------------------------------------------------------------- C4
\* C4: a Pull started at equal revisions with no remote entry ends in that
\* step without any mutation: an error when the managed directory holds a
\* file, skipped when it is missing or holds none.
C4_NoRemoteEntry ==
  [][\A m \in Machines :
       (/\ PullStarts(m)
        /\ LocalRev(m, name'[m]) = RemoteRev(name'[m])
        /\ ~RemoteEntry(name'[m]).present)
         => /\ pc'[m] = "done"
            /\ NoMutation
            /\ ranCmds'[m] = FALSE
            /\ result'[m] =
                 IF \E p \in Paths : cfgDir[m][name'[m]].files[p] # 0
                 THEN "err_remote_entry_absent" ELSE "skipped"]_vars

\* One machine was refused because of its local files while a fresh
\* machine (nothing local, nothing remote for the name) was a no-op.
C4_Witness ==
  \E m, o \in Machines :
    /\ pc[m] = "done" /\ op[m] = "pull" /\ result[m] = "err_remote_entry_absent"
    /\ ~remoteEntry(m).present
    /\ pc[o] = "done" /\ op[o] = "pull" /\ result[o] = "skipped"
    /\ ~remoteEntry(o).present
    /\ ~cfgDir[o][name[o]].exists
    /\ ~localManifestFile[o].exists

\* ---------------------------------------------------------------- C5
\* C5 as stated: a Push started with the local revision below the remote
\* revision returns the pull-first error in that step; bucket and local
\* manifest are unchanged.
C5_PushBehindPullFirst ==
  [][\A m \in Machines :
       (PushStarts(m) /\ LocalRev(m, name'[m]) < RemoteRev(name'[m]))
         => /\ pc'[m] = "done"
            /\ result'[m] = "err_pull_first"
            /\ NoMutation]_vars

\* C5 amended: the error is pull-first when the managed directory exists
\* and the missing-source-directory error when it does not.
C5_PushBehindFails ==
  [][\A m \in Machines :
       (PushStarts(m) /\ LocalRev(m, name'[m]) < RemoteRev(name'[m]))
         => /\ pc'[m] = "done"
            /\ result'[m] = IF cfgDir[m][name'[m]].exists
                            THEN "err_pull_first" ELSE "err_no_source"
            /\ NoMutation]_vars

C5_Witness ==
  \E m \in Machines :
    /\ pc[m] = "done" /\ op[m] = "push" /\ result[m] = "err_pull_first"
    /\ localRevision(m) < remoteRevision(m)

\* ---------------------------------------------------------------- C6
\* C6: when a Push has returned success with a bump to revision N and the
\* same machine starts Push of the same name next (nothing in between),
\* that Push is skipped in its first step, uploads and writes nothing, and
\* both manifests stay at revision N.
C6_PushIdempotent ==
  [][\A m \in Machines :
       (/\ pc[m] = "done" /\ op[m] = "push" /\ result[m] = "ok"
        /\ ops' # ops
        /\ op'[m] = "push" /\ name'[m] = name[m])
         => /\ pc'[m] = "done"
            /\ result'[m] = "skipped"
            /\ NoMutation
            /\ RemoteRev(name[m]) = newEntry[m].revision
            /\ LocalRev(m, name[m]) = newEntry[m].revision]_vars

\* A skipped Push of a machine's own revision 2.
C6_Witness ==
  \E m \in Machines :
    /\ pc[m] = "done" /\ op[m] = "push" /\ result[m] = "skipped"
    /\ remoteEntry(m).updatedBy = m
    /\ remoteRevision(m) = 2
    /\ LocalEntry(m, name[m]) = RemoteEntry(name[m])

\* ---------------------------------------------------------------- C7
\* C7: a Push that uploads stores in the remote manifest an entry whose
\* revision is the local manifest's revision plus one, and then stores
\* that same entry in the local manifest.
C7_PushBumpsLocalRevision ==
  [][\A m \in Machines :
       /\ (pc[m] = "push_save_remote" /\ pc'[m] # "push_save_remote")
            => /\ RemoteEntry(name[m])' = newEntry[m]
               /\ newEntry[m].present
               /\ newEntry[m].revision = LocalRev(m, name[m]) + 1
       /\ (pc[m] = "push_save_local" /\ pc'[m] # "push_save_local")
            => /\ LocalEntry(m, name[m])' = newEntry[m]
               /\ LocalRev(m, name[m])' = LocalRev(m, name[m]) + 1
               /\ UNCHANGED remoteManifestObj]_vars

\* A Push from local revision 1 has returned: both manifests hold its
\* entry of revision 2.
C7_Witness ==
  \E m \in Machines :
    /\ pc[m] = "done" /\ op[m] = "push" /\ result[m] = "ok"
    /\ localRevision(m) = 1
    /\ LocalEntry(m, name[m]) = newEntry[m]
    /\ RemoteEntry(name[m]) = newEntry[m]
    /\ newEntry[m].revision = 2

\* ---------------------------------------------------------------- C8
\* C8 as stated: no step lowers the revision the remote manifest records
\* for a name.
C8_RemoteRevisionNeverDecreases ==
  [][\A n \in Names : RemoteRev(n)' >= RemoteRev(n)]_vars

\* C8 amended: a step lowers it only when a Push saves a manifest it
\* loaded before another invocation saved the remote manifest.
C8_DecreaseOnlyByStaleSave ==
  [][\A n \in Names :
       RemoteRev(n)' < RemoteRev(n) => \E m \in Machines : StaleSave(m)]_vars

\* A Push has just raised the remote revision of a name from 1 to 2.
C8_Witness ==
  \E m \in Machines :
    /\ pc[m] = "push_save_local"
    /\ remoteRevision(m) = 1
    /\ RemoteRev(name[m]) = 2

\* ---------------------------------------------------------------- C9
\* C9 as stated: no step removes an entry from the remote manifest.
C9_RemoteEntryNeverDeleted ==
  [][\A n \in Names : RemoteEntry(n).present => RemoteEntry(n).present']_vars

\* C9 amended: a step removes one only when a Push saves a manifest it
\* loaded before another invocation saved the remote manifest.
C9_DeletedOnlyByStaleSave ==
  [][\A n \in Names :
       (RemoteEntry(n).present /\ ~RemoteEntry(n).present')
         => \E m \in Machines : StaleSave(m)]_vars

\* The remote manifest kept the entry of one name through the Push of
\* another.
C9_Witness ==
  /\ \A n \in Names : RemoteEntry(n).present
  /\ \E m \in Machines : pc[m] = "push_save_local"

\* --------------------------------------------------------------- C10
\* The two machines have both returned success from an uploading Push of
\* the same name (Push itself, or the Push that Init calls), having read
\* the same remote revision.
BothPushed ==
  /\ \A m \in Machines :
       /\ pc[m] = "done" /\ op[m] \in {"push", "init"} /\ result[m] = "ok"
       /\ name[m] = "nvim" /\ newEntry[m].present
  /\ remoteRevision("X") = remoteRevision("Y")

\* C10: whenever that happened, neither returned an error, each machine
\* recorded its own new entry (its local revision plus one) locally, the two
\* entries differ, and the remote manifest holds exactly one of them: the
\* other update is lost.
C10_LostUpdate ==
  BothPushed
    => /\ \A m \in Machines : LocalRev(m, "nvim") = localRevision(m) + 1
       /\ \A m \in Machines : LocalEntry(m, "nvim") = newEntry[m]
       /\ newEntry["X"] # newEntry["Y"]
       /\ RemoteEntry("nvim") \in {newEntry["X"], newEntry["Y"]}

\* The race of the claim: both read remote revision N, both recorded N+1
\* locally, and one machine's local entry is not the remote entry.
C10_Witness ==
  /\ BothPushed
  /\ \A m \in Machines : LocalRev(m, "nvim") = remoteRevision(m) + 1
  /\ RemoteRev("nvim") = remoteRevision("X") + 1
  /\ \E m \in Machines : RemoteEntry("nvim") # LocalEntry(m, "nvim")

\* --------------------------------------------------------------- C11
\* C11: when a Pull or a Push has returned success (completed or skipped),
\* the snapshot of the machine's managed directory is the file list of the
\* machine's local manifest entry for the name (empty when there is none).
C11_LocalStateConsistent ==
  \A m \in Machines :
    (pc[m] = "done" /\ op[m] \in {"pull", "push"} /\ result[m] \in {"ok", "skipped"})
      => Snapshot(m, name[m]) = LocalEntry(m, name[m]).files

\* --------------------------------------------------------------- C12
\* Machine m starts an invocation of kind o while no other machine runs
\* one.
StartsSeq(m, o) ==
  /\ ops' = ops + 1
  /\ pc[m] \in {"idle", "done"}
  /\ pc'[m] # "idle"
  /\ op'[m] = o

\* C12: without overlapping invocations, a Push started with local and
\* remote revision both N >= 1, a remote entry and an existing managed
\* directory whose snapshot differs from the entry's file list goes on to
\* upload an entry of revision N+1 with that snapshot; a Push that returns
\* success has stored its entry in both manifests; and a Pull of the same
\* name started right after it is skipped and changes nothing.
C12_PushAfterEdit ==
  [][\A m \in Machines :
       /\ (/\ StartsSeq(m, "push")
           /\ LocalRev(m, name'[m]) >= 1
           /\ LocalRev(m, name'[m]) = RemoteRev(name'[m])
           /\ RemoteEntry(name'[m]).present
           /\ cfgDir[m][name'[m]].exists
           /\ Snapshot(m, name'[m]) # RemoteEntry(name'[m]).files)
            => /\ pc'[m] = "push_delete"
               /\ newEntry'[m].revision = LocalRev(m, name'[m]) + 1
               /\ newEntry'[m].files = Snapshot(m, name'[m])
       /\ (pc[m] = "push_save_local" /\ pc'[m] = "done")
            => /\ result'[m] = "ok"
               /\ LocalEntry(m, name[m])' = newEntry[m]
               /\ RemoteEntry(name[m])' = newEntry[m]
       /\ (/\ pc[m] = "done" /\ op[m] = "push" /\ result[m] = "ok"
           /\ StartsSeq(m, "pull") /\ name'[m] = name[m])
            => /\ pc'[m] = "done"
               /\ result'[m] = "skipped"
               /\ NoMutation]_vars

\* A machine's Pull was skipped at the revision 2 that machine pushed.
C12_Witness ==
  \E m \in Machines :
    /\ pc[m] = "done" /\ op[m] = "pull" /\ result[m] = "skipped"
    /\ LocalRev(m, name[m]) = 2
    /\ RemoteEntry(name[m]).revision = 2
    /\ RemoteEntry(name[m]).updatedBy = m
    /\ Snapshot(m, name[m]) = RemoteEntry(name[m]).files

\* --------------------------------------------------------------- C13
\* The positions of Init up to the return of its Push, and the errors of
\* its copy and of its Push.
BeforePushReturns ==
  {"init_copy", "init_push", "push_delete", "push_put", "push_save_remote",
   "push_save_local"}
CopyOrPushErrors ==
  {"err_copy", "err_no_source", "err_pull_first", "err_load_remote",
   "err_upload", "err_save_remote", "err_save_local"}

\* C13: while Init has not got success back from Push, and after Init has
\* returned an error of its copy or of its Push, the original directory is
\* at the primary link path with all its files (so no symlink is there),
\* and no post-sync command has run.
C13_OriginalKeptUntilPushed ==
  \A m \in Machines :
    (/\ op[m] = "init"
     /\ \/ pc[m] \in BeforePushReturns
        \/ pc[m] = "done" /\ result[m] \in CopyOrPushErrors)
      => /\ linkPath[m][name[m]] = OriginalLink(m, name[m])
         /\ linkPath[m][name[m]].kind = "dir"
         /\ ~ranCmds[m]

\* Init returned the error of the last step of its Push, after the remote
\* manifest was saved.
C13_Witness ==
  \E m \in Machines :
    /\ op[m] = "init" /\ pc[m] = "done" /\ result[m] = "err_save_local"
    /\ RemoteEntry(name[m]).present
    /\ linkPath[m][name[m]].kind = "dir"

\* ---------------------------------------------------------------- C14
\* C14: an Init started while the primary link path is already the
\* symbolic link to the managed directory returns "already initialized"
\* in that very step: nothing is copied, Push is not entered, the bucket,
\* both manifests, the directories and the link path are as before, and
\* no post-sync command has run.
C14_InitAlreadyInitialized ==
  [][\A m \in Machines :
       (StartsSeq(m, "init") /\ linkPath[m][name'[m]] = ManagedSymlink)
         => /\ pc'[m] = "done"
            /\ result'[m] = "err_already_initialized"
            /\ NoMutation
            /\ ranCmds'[m] = FALSE]_vars

C14_Witness ==
  \E m \in Machines :
    /\ pc[m] = "done" /\ op[m] = "init"
    /\ result[m] = "err_already_initialized"
    /\ linkPath[m][name[m]] = ManagedSymlink
    /\ cfgDir[m][name[m]].exists

\* ---------------------------------------------------------------- C15
PlainLinks(n) == {i \in 1..Len(linkCfg[n]) : linkCfg[n][i].plain}

LinkConfigErrors ==
  {"err_no_link_config", "err_no_primary_link", "err_multiple_primary_links"}

\* C15: an Init of an entry with no plain link specification or with
\* several returns a configuration error in its first step, with the
\* bucket and the disk as before and no command run; an Init of an entry
\* with exactly one copies the directory at that link's path into the
\* managed directory, and it is that path it removes afterwards.
C15_InitNeedsOnePlainLink ==
  [][\A m \in Machines :
       /\ (StartsSeq(m, "init") /\ Cardinality(PlainLinks(name'[m])) # 1)
            => /\ pc'[m] = "done"
               /\ result'[m] \in LinkConfigErrors
               /\ NoMutation
               /\ ranCmds'[m] = FALSE
       /\ (pc[m] \in {"init_copy", "init_remove"} /\ pc'[m] # pc[m])
            => \E i \in PlainLinks(name[m]) :
                 LET src == linkCfg[name[m]][i].link
                 IN  /\ PlainLinks(name[m]) = {i}
                     /\ pc[m] = "init_copy" /\ pc'[m] = "init_push"
                          => cfgDir'[m][name[m]] = DirOf(linkPath[m][src].files)
                     /\ pc[m] = "init_remove"
                          => linkPath' = [linkPath EXCEPT ![m][src] = AbsentLink]]_vars

C15_Witness ==
  \E m \in Machines :
    /\ pc[m] = "done" /\ op[m] = "init"
    /\ result[m] = "err_multiple_primary_links"
    /\ Cardinality(PlainLinks(name[m])) = 2
    /\ linkPath[m] = [p \in LinkPaths |-> OriginalLink(m, p)]
    /\ ~cfgDir[m][name[m]].exists

\* ---------------------------------------------------------------- C16
\* Push is entered: by "donk cfg push", or by Init after its copy.
PushEnters(m) ==
  \/ StartsSeq(m, "push")
  \/ pc[m] = "init_push" /\ pc'[m] # "init_push"

OtherZero(e) == IF e.present THEN NoEntry ELSE ZeroEntry

Outcome(d) ==
  IF d \in {"transfer", "upload"} THEN "transfer"
  ELSE IF d = "skipped" THEN "skip"
  ELSE "error"

\* The step in which machine m enters Pull takes decision d.
PullTakes(m, d) ==
  IF d = "transfer" THEN pc'[m] = "pull_list"
  ELSE pc'[m] = "done" /\ Outcome(result'[m]) = Outcome(d)

\* The step in which machine m enters Push takes decision d.
PushTakes(m, d) ==
  IF d = "upload" THEN pc'[m] = "push_delete"
  ELSE IF d = "skipped"
       THEN pc'[m] = "init_remove" \/ (pc'[m] = "done" /\ result'[m] = "skipped")
  ELSE pc'[m] = "done" /\ Outcome(result'[m]) = "error"

\* What Pull and Push of machine m, entered in this step for name n with
\* the bucket's entry e, decide.
PullDecides(m, n, e) ==
  PullDecision(LocalRev(m, n), RevisionOf(e), e.present, cfgDir[m][n], e)

PushDecides(m, n, e) ==
  PushDecision(cfgDir[m][n], LocalRev(m, n), RevisionOf(e), e.present,
               Snapshot(m, n), e)

\* The bucket's entry for n is absent, or is present with revision 0 and
\* no files.
ZeroOrAbsent(n) == RemoteEntry(n) \in {NoEntry, ZeroEntry}

\* C17 as stated: a Pull or Push entered while the bucket's entry is absent
\* or is of revision 0 without files takes the decision (transfer, skip or
\* error) it would take with the other of the two.
C17_AbsentIsRevisionZero ==
  [][\A m \in Machines :
       /\ (StartsSeq(m, "pull") /\ ZeroOrAbsent(name'[m]))
            => PullTakes(m, PullDecides(m, name'[m], OtherZero(RemoteEntry(name'[m]))))
       /\ (PushEnters(m) /\ ZeroOrAbsent(name'[m]))
            => PushTakes(m, PushDecides(m, name'[m], OtherZero(RemoteEntry(name'[m]))))]_vars

\* C17, amended: the same except for a Pull at local revision 0 with the
\* managed directory missing and for a Push of a managed directory without
\* files; in all other cases the decision is the one taken with the other
\* entry, a decision other than a transfer changes nothing, and the
\* remote manifest a Push saves is the one it would save had it loaded the
\* other entry.
C17_AbsentIsRevisionZeroExcept ==
  [][\A m \in Machines :
       /\ ( /\ StartsSeq(m, "pull") /\ ZeroOrAbsent(name'[m])
            /\ ~(LocalRev(m, name'[m]) = 0 /\ ~cfgDir[m][name'[m]].exists) )
            => /\ PullTakes(m, PullDecides(m, name'[m], OtherZero(RemoteEntry(name'[m]))))
               /\ pc'[m] = "done"
               /\ NoMutation
       /\ ( /\ PushEnters(m) /\ ZeroOrAbsent(name'[m])
            /\ ~(cfgDir[m][name'[m]].exists /\ Snapshot(m, name'[m]) = <<>>) )
            => /\ PushTakes(m, PushDecides(m, name'[m], OtherZero(RemoteEntry(name'[m]))))
               /\ NoMutation
       /\ ( /\ pc[m] = "push_save_remote" /\ pc'[m] = "push_save_local"
            /\ remoteManifest[m].entries[name[m]] \in {NoEntry, ZeroEntry} )
            => remoteManifestObj' = saveRemoteCfgManifest(
                 RemoteManifestToSave(
                   [remoteManifest[m] EXCEPT
                      !.entries[name[m]] = OtherZero(@)],
                   name[m], newEntry[m]))]_vars

\* A Push that loaded the entry of revision 0 without files has uploaded a
\* directory with files and recorded revision 1.
C17_Witness ==
  \E m \in Machines :
    /\ pc[m] = "done" /\ op[m] = "push" /\ result[m] = "ok"
    /\ remoteManifest[m].entries[name[m]] = ZeroEntry
    /\ Snapshot(m, name[m]) # <<>>
    /\ RemoteRev(name[m]) = 1

\* ---------------------------------------------------------------- C18
\* What a Pull returns when a step of its transfer fails.
TransferErrors ==
  {"err_not_found", "err_download", "err_rename", "err_save_local",
   "err_no_link_config", "err_link_conflict", "err_link", "err_cmd"}

\* C18: with invocations that do not overlap, when a Pull has returned an
\* error from its transfer, either the managed directory is as the Pull
\* found it and the local manifest entry is the one it loaded, or the
\* managed directory holds the files of the remote entry and the local
\* manifest entry is the remote entry.
C18_PullNoPartialSuccess ==
  \A m \in Machines :
    (pc[m] = "done" /\ op[m] = "pull" /\ result[m] \in TransferErrors)
      => \/ /\ cfgDir[m][name[m]] = dirBefore[m]
            /\ LocalEntry(m, name[m]) = localManifest[m].entries[name[m]]
         \/ /\ cfgDir[m][name[m]].exists
            /\ Snapshot(m, name[m]) = remoteEntry(m).files
            /\ LocalEntry(m, name[m]) = remoteEntry(m)

\* ---------------------------------------------------------------- C19
\* renameDir returns an error to the Pull of machine m in this step.
RenameDirFails(m) ==
  /\ pc[m] \in {"pull_rename", "pull_commit"}
  /\ pc'[m] = "done"
  /\ result'[m] = "err_rename"

\* renameDir's second rename succeeds / renameDir returns success.
RenameDirCommits(m) == pc[m] = "pull_commit" /\ pc'[m] = "pull_unbak"
RenameDirReturns(m) == pc[m] = "pull_unbak" /\ pc'[m] = "pull_save"

\* C19 as stated: when the managed directory existed as Pull found it,
\* renameDir returning an error leaves it in place with that content, and
\* renameDir returning success leaves it in place with the complete staged
\* content.
C19_RenameDirKeepsTarget ==
  [][\A m \in Machines :
       dirBefore[m].exists
         => /\ RenameDirFails(m) => cfgDir'[m][name[m]] = dirBefore[m]
            /\ RenameDirCommits(m)
                 => /\ pending[m] = <<>>
                    /\ cfgDir'[m][name[m]] = tmpDir[m][name[m]]
                    /\ cfgDir'[m][name[m]].exists
            /\ RenameDirReturns(m)
                 => /\ cfgDir'[m][name[m]] = cfgDir[m][name[m]]
                    /\ cfgDir'[m][name[m]].exists]_vars

\* C19, amended: the same, except that renameDir may return the error of
\* its second rename with the managed directory missing, and then the
\* sibling ".bak" directory holds the content Pull found.
C19_RenameDirKeepsTargetOrBackup ==
  [][\A m \in Machines :
       dirBefore[m].exists
         => /\ RenameDirFails(m)
                 => \/ cfgDir'[m][name[m]] = dirBefore[m]
                    \/ /\ pc[m] = "pull_commit"
                       /\ ~cfgDir'[m][name[m]].exists
                       /\ bakDir'[m][name[m]] = dirBefore[m]
            /\ RenameDirCommits(m)
                 => /\ pending[m] = <<>>
                    /\ cfgDir'[m][name[m]] = tmpDir[m][name[m]]
                    /\ cfgDir'[m][name[m]].exists
            /\ RenameDirReturns(m)
                 => /\ cfgDir'[m][name[m]] = cfgDir[m][name[m]]
                    /\ cfgDir'[m][name[m]].exists]_vars

\* renameDir has failed with the backup restored.
C19_Witness ==
  \E m \in Machines :
    /\ pc[m] = "done" /\ op[m] = "pull" /\ result[m] = "err_rename"
    /\ dirBefore[m].exists
    /\ cfgDir[m][name[m]] = dirBefore[m]
    /\ ~bakDir[m][name[m]].exists
    /\ Snapshot(m, name[m]) # remoteEntry(m).files

\* ---------------------------------------------------------------- C20
\* The positions of a Pull inside its transfer.
TransferSteps ==
  {"pull_list", "pull_get", "pull_rename", "pull_commit", "pull_unbak",
   "pull_save", "pull_links", "pull_cmds"}

\* C20: with invocations that do not overlap, at every position of a
\* transferring Pull, and once it has returned, the managed directory is
\* as the Pull found it, or holds exactly the objects of the entry's
\* prefix, or is missing while the sibling ".bak" directory is as the Pull
\* found the managed directory; between the two renames ".bak" is missing
\* or is that directory.  A tree with only some of the objects is under
\* ".tmp" alone.
C20_PullCrashConsistent ==
  \A m \in Machines :
    ( /\ op[m] = "pull"
      /\ \/ pc[m] \in TransferSteps
         \/ pc[m] = "done" /\ result[m] \in TransferErrors \cup {"ok"} )
      => LET n == name[m]
         IN  /\ \/ cfgDir[m][n] = dirBefore[m]
                \/ cfgDir[m][n] = DirOf(remoteData[n])
                \/ /\ ~cfgDir[m][n].exists
                   /\ dirBefore[m].exists
                   /\ bakDir[m][n] = dirBefore[m]
             /\ pc[m] \in {"pull_commit", "pull_unbak"}
                  => bakDir[m][n] \in {MissingDir, dirBefore[m]}

\* Between the two renames: the managed directory is missing, ".bak" holds
\* what it held and ".tmp" the complete download.
C20_Witness ==
  \E m \in Machines :
    /\ op[m] = "pull" /\ pc[m] = "pull_commit"
    /\ ~cfgDir[m][name[m]].exists
    /\ dirBefore[m].exists
    /\ bakDir[m][name[m]] = dirBefore[m]
    /\ tmpDir[m][name[m]] = DirOf(remoteData[name[m]])
    /\ tmpDir[m][name[m]] # dirBefore[m]

\* ---------------------------------------------------------------- C21
\* The positions of Init inside copyDirForCfgInit, and those from its
\* return until the original directory is removed.
CopySteps == {"init_copy", "init_copy_file", "init_copy_rename"}
CopiedSteps ==
  {"init_push", "push_delete", "push_put", "push_save_remote",
   "push_save_local", "init_remove"}

SymlinkCreated(m) ==
  \E lp \in LinkPaths :
    /\ linkPath'[m][lp] # linkPath[m][lp]
    /\ linkPath'[m][lp] \in {ManagedSymlink, OtherSymlink}

\* The managed directory of the running invocation is in place: it exists,
\* nothing is staged, the local manifest entry is the remote manifest entry
\* at a revision above zero, and the directory holds every object of the
\* remote path (Pull) or the files the entry lists (Init).
DataInPlace(m) ==
  LET n == name[m]
  IN  /\ cfgDir[m][n].exists
      /\ ~tmpDir[m][n].exists
      /\ LocalRev(m, n) >= 1
      /\ LocalEntry(m, n) = RemoteEntry(n)
      /\ IF op[m] = "pull"
         THEN cfgDir[m][n].files = remoteData[n]
         ELSE isCfgManifestFilesEqual(Snapshot(m, n), LocalEntry(m, n).files)

\* Every link of the entry's link specifications is the symbolic link its
\* plan asks for.
SymlinksMaterialized(m) ==
  LET built == buildSymlinkPlans(linkCfg[name[m]])
  IN  /\ built.err = "ok"
      /\ \A i \in 1..Len(built.plans) :
           linkPath[m][built.plans[i].link] = SymlinkTo(built.plans[i].src)

\* C22: a step that creates a symbolic link is the ensureSymlinks step of
\* a Pull, taken after the swap and the save of the local manifest, or
\* that of an Init, taken after the copy, the successful Push and the
\* removal of the original directory; in both the managed directory is in
\* place.  A step that runs the commands is taken with every symbolic
\* link of the entry materialized and with the data in place.
C22_SymlinksAfterData ==
  [][\A m \in Machines :
       /\ SymlinkCreated(m)
            => /\ \/ op[m] = "pull" /\ pc[m] = "pull_links"
                  \/ /\ op[m] = "init" /\ pc[m] = "init_links"
                     /\ linkPath[m][primaryLinkPath(m)] = AbsentLink
               /\ DataInPlace(m)
       /\ (ranCmds'[m] /\ ~ranCmds[m])
            => /\ pc[m] \in {"pull_cmds", "init_cmds"}
               /\ SymlinksMaterialized(m)
               /\ DataInPlace(m)]_vars

\* A Pull has created the symbolic links of an entry with two link
\* specifications and run the commands, on the other machine an Init
\* having left its symbolic link.
C22_Witness ==
  \E m \in Machines :
    /\ op[m] = "pull" /\ pc[m] = "done" /\ result[m] = "ok" /\ ranCmds[m]
    /\ Len(linkCfg[name[m]]) = 2
    /\ SymlinksMaterialized(m)
    /\ \E o \in Machines \ {m} : \E n \in Names :
         /\ linkPath[o][n] = ManagedSymlink
         /\ cfgDir[o][n].exists

\* ---------------------------------------------------------------- C23
\* The orders of the writes of a Push of machine m: the objects change
\* only in its upload steps; the remote manifest is saved when every file
\* of the managed directory is uploaded; the local manifest is saved when
\* the remote manifest holds the new entry.
PushWriteOrder(m) ==
  LET n == name[m]
  IN  /\ remoteData' # remoteData
           => \E o \in Machines : pc[o] \in {"push_delete", "push_put"}
      /\ (remoteManifestObj' # remoteManifestObj /\ pc[m] = "push_save_remote")
           => /\ pending[m] = <<>>
              /\ remoteData[n] = cfgDir[m][n].files
              /\ LocalEntry(m, n) = localManifest[m].entries[n]
      /\ (localManifestFile'[m] # localManifestFile[m] /\ op[m] \in {"push", "init"})
           => /\ pc[m] = "push_save_local"
              /\ remoteData[n] = cfgDir[m][n].files
              /\ RemoteEntry(n) = newEntry[m]

\* Push of machine m has died after the remote manifest write.
PushCrashed(m) ==
  pc[m] = "done" /\ result[m] = "crashed"

\* The running Pull of machine m found the remote entry written by m
\* itself at a revision above the one of m's local manifest.
PullAfterCrash(m) ==
  /\ op[m] = "pull"
  /\ remoteEntry(m).present
  /\ remoteEntry(m).updatedBy = m
  /\ localRevision(m) < remoteRevision(m)

\* C23: Push uploads the data, then saves the remote manifest, then saves
\* the local manifest.  When Push has died between the two saves the local
\* manifest holds the entry as loaded, of a revision below the remote one;
\* a Pull of that name which the machine starts then takes the transfer
\* path, and when it has ended the local entry is the remote entry and the
\* managed directory holds the files the pushed entry lists.
C23_PushCrashThenPull ==
  /\ [][\A m \in Machines :
          /\ PushWriteOrder(m)
          /\ \A n \in Names :
               (/\ PullStarts(m) /\ name'[m] = n
                /\ RemoteEntry(n).present /\ RemoteEntry(n).updatedBy = m
                /\ LocalRev(m, n) < RemoteRev(n))
                 => PullTakes(m, "transfer")]_vars
  /\ [](\A m \in Machines :
          /\ PushCrashed(m)
               => /\ LocalEntry(m, name[m]) = localManifest[m].entries[name[m]]
                  /\ LocalRev(m, name[m]) < RemoteRev(name[m])
                  /\ RemoteEntry(name[m]) = newEntry[m]
          /\ (PullAfterCrash(m) /\ pc[m] = "done")
               => /\ LocalEntry(m, name[m]) = RemoteEntry(name[m])
                  /\ cfgDir[m][name[m]].exists
                  /\ isCfgManifestFilesEqual(Snapshot(m, name[m]),
                                             RemoteEntry(name[m]).files))

\* ---------------------------------------------------------------- C24
\* b is a with its elements in some order.
SameTriples(a, b) ==
  /\ Len(a) = Len(b)
  /\ \E f \in [1..Len(a) -> 1..Len(a)] :
       /\ \A i, j \in 1..Len(a) : i # j => f[i] # f[j]
       /\ \A i \in 1..Len(a) : a[i] = b[f[i]]

\* No path occurs twice in the list.
DistinctPaths(a) ==
  \A i, j \in 1..Len(a) : i # j => a[i].path # a[j].path

PushInProgress(m) ==
  pc[m] \in {"push_delete", "push_put", "push_save_remote", "push_save_local"}

\* The objects under the remote path of n are the files the remote
\* manifest entry of n lists, path by path with the same bytes.
RemoteDataMatchesEntry(n) ==
  isCfgManifestFilesEqual(WalkFiles(remoteData[n]), RemoteEntry(n).files)

\* C25: whenever no Push is in progress on any machine, and no invocation
\* has just returned an error, the objects under the remote path of every
\* name are the files its remote manifest entry lists; the Push
\* invocations of the two machines interleave step by step.
C25_RemoteDataMatchesManifest ==
  (\A m \in Machines :
     /\ ~PushInProgress(m)
     /\ result[m] \in {"none", "ok", "skipped"})
    => \A n \in Names : RemoteDataMatchesEntry(n)

====
